---- MODULE Spec2Model ----
(***************************************************************************)
(* A model of AudioPages.py: the session controller TextToSpeechApp        *)
(* (voice listing and selection, speech generation with one fallback       *)
(* transport, playback through a temporary file), the PDF text extraction, *)
(* and the two front ends (the line menu of TextToSpeechApp.run and the    *)
(* Tk window of TextToSpeechGUI with its worker threads and the queue of   *)
(* root.after callbacks).                                                  *)
(*                                                                         *)
(* The remote service, the audio players, the file system and the user are *)
(* the environment: every outcome they can produce is an input chosen with *)
(* \E from a small set.  Bytes are sequences of numbers, text is a         *)
(* sequence of one-character strings, None is the value NoneVal.           *)
(***************************************************************************)
EXTENDS Integers, Sequences, FiniteSets, TLC

\* ------------------------------------------------------------------ bounds
MaxVoices == 2      \* longest voice listing the remote service returns
MaxChunks == 2      \* most byte chunks the primary transport streams
MaxPages == 3       \* most pages of a PDF
MaxTmp == 2         \* most temporary audio files created in one run
MaxWorkers == 3     \* most worker threads the window starts in one run
MaxSaves == 2       \* most save_audio calls in one run
MaxSecond == 3      \* latest clock second of a save_audio call

\* ----------------------------------------------------------- value domains
NoneVal == <<-1>>                      \* Python's None, where bytes are expected
DefaultVoice == "21m00Tcm4TlvDq8ikWAM"
VoiceIds == {DefaultVoice, "v1", "v2"}
Whitespace == {" ", "\n"}

RECURSIVE SeqsUpTo(_, _)
SeqsUpTo(S, n) ==
    IF n = 0 THEN {<<>>}
    ELSE LET shorter == SeqsUpTo(S, n - 1)
         IN shorter \cup {Append(s, x) : s \in {t \in shorter : Len(t) = n - 1}, x \in S}

Range(s) == {s[i] : i \in DOMAIN s}
NoRepeat(s) == \A i, j \in DOMAIN s : i # j => s[i] # s[j]

\* str.strip(): leading and trailing whitespace removed
RECURSIVE LStrip(_)
LStrip(t) == IF t # <<>> /\ Head(t) \in Whitespace THEN LStrip(Tail(t)) ELSE t
RECURSIVE RStrip(_)
RStrip(t) ==
    IF t # <<>> /\ t[Len(t)] \in Whitespace THEN RStrip(SubSeq(t, 1, Len(t) - 1)) ELSE t
Strip(t) == RStrip(LStrip(t))

\* b''.join(chunks)
RECURSIVE Join(_)
Join(chunks) == IF chunks = <<>> THEN <<>> ELSE Head(chunks) \o Join(Tail(chunks))

\* Python truth of a bytes-or-None value: None and b'' are false
Truthy(b) == b # NoneVal /\ b # <<>>

\* --------------------------------------------------------------- the inputs
TextInputs == {<<>>, <<" ">>, <<"a">>, <<" ", "b">>}
Chunks == {<<>>, <<1>>, <<2>>}
\* the primary transport: the chunks it yields, and whether it raises after them
PrimaryOutcomes == [raises : BOOLEAN, chunks : SeqsUpTo(Chunks, MaxChunks)]
\* the fallback POST: a response with a status and a body, or an exception
FallbackOutcomes ==
    [kind : {"response"}, status : {200, 401, 500}, body : {<<>>, <<7>>}]
        \cup {[kind |-> "raise", status |-> 0, body |-> <<>>]}
\* client.voices.get_all(): the voices in the service's order, or an exception
RemoteListings ==
    [ok : BOOLEAN, voices : {s \in SeqsUpTo(VoiceIds, MaxVoices) : NoRepeat(s)}]
\* what the user types at "Select a voice number"; InputEOF is input() raising
InputEOF == "<EOF>"
DigitChoices == {ToString(n) : n \in 0..(MaxVoices + 1)}
ChoiceInputs == DigitChoices \cup {"", "abc", "-1", InputEOF}
IsDigit(c) == c \in DigitChoices
IntOf(c) == CHOOSE n \in 0..(MaxVoices + 1) : ToString(n) = c

VARIABLES
    client,         \* self.client: "none" before setup_api_key, "ok" after
    voice_id,       \* self.voice_id
    tmpfiles,       \* the temporary audio files that exist on disk
    ntmp,           \* how many temporary files have been created
    last,           \* what the last completed operation was given and returned
    PYGAME_AVAILABLE,   \* the module flags, set once when the program is loaded
    PDF_AVAILABLE,
    \* the window (TextToSpeechGUI)
    text_area,      \* content of the text area
    current_audio,  \* self.current_audio
    voice_var,      \* the combobox selection ("" while the list is empty)
    combo_values,   \* the combobox entries
    voice_mapping,  \* self.voice_mapping: absent until the first list is loaded
    btn,            \* state of each button
    status_var,     \* the status line
    progress,       \* the progress bar
    uiq,            \* batches of callbacks handed to root.after(0, ...), oldest first
    workers,        \* the threads started so far, in start order
    directWrites,   \* fields that a worker thread has written itself
    returned,       \* workers whose generate_speech returned audio, in return order
    stored,         \* workers that stored their audio, in store order
    \* the files save_audio writes
    disk,           \* content of each file name (NoneVal: no such file)
    saves,          \* the save_audio calls made so far, in call order
    \* the process
    proc,           \* "running", "ended" (run returned) or "exit_..." (sys.exit)
    cli             \* where TextToSpeechApp.run is

appvars == <<client, voice_id, tmpfiles, ntmp, last>>
flags == <<PYGAME_AVAILABLE, PDF_AVAILABLE>>
guivars == <<text_area, current_audio, voice_var, combo_values, voice_mapping, btn,
             status_var, progress, uiq, workers, directWrites, returned, stored>>
sysvars == <<disk, saves, proc, cli>>
vars == <<appvars, flags, guivars, sysvars>>

\* the process has not ended
Running == proc = "running"

\* ------------------------------------------------ TextToSpeechApp operations

\* a variant of list_available_voices without its try/except
list_available_voices_uncaught(cl, remote) ==
    [ret |-> remote.voices, raised |-> cl = "none" \/ ~remote.ok]

\* list_available_voices: the listing, or [] on any exception
list_available_voices(cl, remote) ==
    IF cl = "none" \/ ~remote.ok
    THEN [ret |-> <<>>, raised |-> FALSE]
    ELSE [ret |-> remote.voices, raised |-> FALSE]

\* select_voice: the voice id after the call
select_voice(cl, vid, remote, choice) ==
    LET voices == list_available_voices(cl, remote).ret
    IN  IF voices = <<>> THEN [voice_id |-> vid, raised |-> FALSE]
        ELSE IF choice = InputEOF THEN [voice_id |-> vid, raised |-> FALSE]
        ELSE IF choice # "" /\ IsDigit(choice)
             THEN LET choice_idx == IntOf(choice) - 1
                  IN  IF 0 <= choice_idx /\ choice_idx < Len(voices)
                      THEN [voice_id |-> voices[choice_idx + 1], raised |-> FALSE]
                      ELSE [voice_id |-> vid, raised |-> FALSE]
             ELSE [voice_id |-> vid, raised |-> FALSE]

\* a variant of generate_speech that takes the body of any response as audio
generate_speech_any_status(cl, text, p, f) ==
    LET primaryRaises == cl = "none" \/ p.raises
    IN  IF ~primaryRaises
        THEN [ret |-> Join(p.chunks), primary |-> 1, post |-> 0,
              primaryRaised |-> FALSE, raised |-> FALSE]
        ELSE [ret |-> IF f.kind = "response" THEN f.body ELSE NoneVal,
              primary |-> IF cl = "none" THEN 0 ELSE 1, post |-> 1,
              primaryRaised |-> TRUE, raised |-> FALSE]

\* a variant of generate_speech that keeps the chunks received before the
\* primary path raised
generate_speech_keep_partial(cl, text, p, f) ==
    LET primaryRaises == cl = "none" \/ p.raises
    IN  IF ~primaryRaises
        THEN [ret |-> Join(p.chunks), primary |-> 1, post |-> 0,
              primaryRaised |-> FALSE, raised |-> FALSE]
        ELSE [ret |-> IF f.kind = "response" /\ f.status = 200
                      THEN Join(p.chunks) \o f.body ELSE NoneVal,
              primary |-> IF cl = "none" THEN 0 ELSE 1, post |-> 1,
              primaryRaised |-> TRUE, raised |-> FALSE]

\* generate_speech: the primary client call, and on any exception of it one POST
generate_speech(cl, text, p, f) ==
    LET primaryRaises == cl = "none" \/ p.raises
    IN  IF ~primaryRaises
        THEN [ret |-> Join(p.chunks), primary |-> 1, post |-> 0,
              primaryRaised |-> FALSE, raised |-> FALSE]
        ELSE [ret |-> IF f.kind = "response" /\ f.status = 200 THEN f.body ELSE NoneVal,
              primary |-> IF cl = "none" THEN 0 ELSE 1, post |-> 1,
              primaryRaised |-> TRUE, raised |-> FALSE]

\* a setting in [0, 1], in tenths
Levels == {0, 5, 10}
\* the keyword arguments of generate_speech
SettingsInputs ==
    [stability : Levels, similarity_boost : Levels, style : Levels,
     use_speaker_boost : BOOLEAN]

\* the arguments of client.text_to_speech.convert
primary_request(vid, text, stability, similarity_boost, style, use_speaker_boost) ==
    [voice_id |-> vid, text |-> text,
     voice_settings |-> [stability |-> stability, similarity_boost |-> similarity_boost,
                         style |-> style, use_speaker_boost |-> use_speaker_boost]]

\* a variant of the fallback request that mixes up two of the settings
fallback_request_swapped(vid, text, stability, similarity_boost, style, use_speaker_boost) ==
    [url |-> "https://api.elevenlabs.io/v1/text-to-speech/" \o vid,
     json |-> [text |-> text, model_id |-> "eleven_monolingual_v1",
               voice_settings |-> [stability |-> similarity_boost,
                                   similarity_boost |-> stability, style |-> style,
                                   use_speaker_boost |-> use_speaker_boost]]]

\* the url and the json body of requests.post
fallback_request(vid, text, stability, similarity_boost, style, use_speaker_boost) ==
    [url |-> "https://api.elevenlabs.io/v1/text-to-speech/" \o vid,
     json |-> [text |-> text, model_id |-> "eleven_monolingual_v1",
               voice_settings |-> [stability |-> stability,
                                   similarity_boost |-> similarity_boost, style |-> style,
                                   use_speaker_boost |-> use_speaker_boost]]]

\* ------------------------------------------------------------------ playback
players == <<"mpg123", "mpv", "vlc", "mplayer", "aplay">>
\* a player on this machine: "absent" (`which` fails or cannot be run),
\* "launch_raises" (found, but running it raises) or "runs"
PlayerStatus == {"absent", "launch_raises", "runs"}
Outcome == {"ok", "raise"}
NoPlayers == [i \in DOMAIN players |-> "absent"]
PlayEnvBase ==
    [tmp |-> "ok", pygame |-> "ok", system |-> "Other", afplay |-> "ok",
     players |-> NoPlayers, xdg |-> "ok", unlink |-> "ok"]
\* the environments of one play_audio call; a field that the chosen branch
\* never consults keeps its value of PlayEnvBase
PlayEnvsNoProbe ==
    {[PlayEnvBase EXCEPT !.tmp = "raise"]}
    \cup {[PlayEnvBase EXCEPT !.pygame = g, !.unlink = u] : g \in Outcome, u \in Outcome}
    \cup {[PlayEnvBase EXCEPT !.system = s, !.unlink = u] :
              s \in {"Windows", "Other"}, u \in Outcome}
    \cup {[PlayEnvBase EXCEPT !.system = "Darwin", !.afplay = a, !.unlink = u] :
              a \in Outcome, u \in Outcome}
PlayEnvsLinux ==
    {[PlayEnvBase EXCEPT !.system = "Linux", !.players = ps, !.xdg = x, !.unlink = u] :
              ps \in [DOMAIN players -> PlayerStatus], x \in Outcome, u \in Outcome}
PlayEnvs == PlayEnvsNoProbe \cup PlayEnvsLinux

\* the loop over the Linux players from position i on: the commands run
RECURSIVE ProbePlayers(_, _)
ProbePlayers(ps, i) ==
    IF i > Len(players)
    THEN [ran |-> <<>>, tried |-> <<>>, probed |-> <<>>, done |-> FALSE]
    ELSE IF ps[i] = "runs"
    THEN [ran |-> <<players[i]>>, tried |-> <<players[i]>>, probed |-> <<players[i]>>,
          done |-> TRUE]
    ELSE LET rest == ProbePlayers(ps, i + 1)
         IN  IF ps[i] = "launch_raises"
             THEN [rest EXCEPT !.tried = <<players[i]>> \o @, !.probed = <<players[i]>> \o @]
             ELSE [rest EXCEPT !.probed = <<players[i]>> \o @]

\* a variant of _play_with_system that opens the file with xdg-open after the
\* loop in every case
play_with_system_always_xdg(env) ==
    LET probe == ProbePlayers(env.players, 1)
    IN  [ran |-> probe.ran \o <<"xdg-open">>, tried |-> probe.tried \o <<"xdg-open">>,
         played |-> TRUE, announced |-> FALSE]

\* _play_with_system: the commands it ran to completion, those it tried, whether
\* the audio was handed to a player, and whether it printed "Audio saved to"
\* (it catches every exception itself)
play_with_system(env) ==
    CASE env.system = "Windows" ->
            [ran |-> <<"start">>, tried |-> <<"start">>, played |-> TRUE, announced |-> FALSE]
      [] env.system = "Darwin" ->
            IF env.afplay = "ok"
            THEN [ran |-> <<"afplay">>, tried |-> <<"afplay">>, played |-> TRUE,
                  announced |-> FALSE]
            ELSE [ran |-> <<>>, tried |-> <<"afplay">>, played |-> FALSE, announced |-> TRUE]
      [] env.system = "Linux" ->
            LET probe == ProbePlayers(env.players, 1)
            IN  IF probe.done
                THEN [ran |-> probe.ran, tried |-> probe.tried, played |-> TRUE,
                      announced |-> FALSE]
                ELSE IF env.xdg = "ok"
                THEN [ran |-> <<"xdg-open">>, tried |-> probe.tried \o <<"xdg-open">>,
                      played |-> TRUE, announced |-> FALSE]
                ELSE [ran |-> <<>>, tried |-> probe.tried \o <<"xdg-open">>,
                      played |-> FALSE, announced |-> TRUE]
      [] OTHER ->
            [ran |-> <<>>, tried |-> <<>>, played |-> FALSE, announced |-> TRUE]

\* play_audio on the new temporary file `path`: the files on disk afterwards and
\* what happened.  An exception of the mixer skips the clean-up; after
\* _play_with_system has returned the file is unlinked.
play_audio(pg, env, path, files) ==
    IF env.tmp = "raise"
    THEN [files |-> files, written |-> FALSE, played |-> FALSE, ran |-> <<>>,
          tried |-> <<>>, announced |-> FALSE, completed |-> FALSE, raised |-> FALSE]
    ELSE IF pg
    THEN IF env.pygame = "raise"
         THEN [files |-> files \cup {path}, written |-> TRUE, played |-> FALSE,
               ran |-> <<>>, tried |-> <<"pygame">>, announced |-> FALSE,
               completed |-> FALSE, raised |-> FALSE]
         ELSE [files |-> IF env.unlink = "ok" THEN files \ {path} ELSE files \cup {path},
               written |-> TRUE, played |-> TRUE, ran |-> <<"pygame">>,
               tried |-> <<"pygame">>, announced |-> FALSE, completed |-> TRUE,
               raised |-> FALSE]
    ELSE LET sys == play_with_system(env)
         IN  [files |-> IF env.unlink = "ok" THEN files \ {path} ELSE files \cup {path},
              written |-> TRUE, played |-> sys.played, ran |-> sys.ran,
              tried |-> sys.tried, announced |-> sys.announced, completed |-> TRUE,
              raised |-> FALSE]

\* ------------------------------------------------------- PDF text extraction
\* a page: extract_text() raises (or returns None), or yields this text
PageTexts == {<<>>, <<" ">>, <<"a">>, <<"b", " ">>}
Pages == [fails : {TRUE}, text : {<<>>}] \cup [fails : {FALSE}, text : PageTexts]
PdfInputs == SeqsUpTo(Pages, MaxPages)
Marker(n) == "--- Page " \o ToString(n) \o " ---"
NoTextError == "Error reading PDF: No text could be extracted from the PDF"
OpenError == "Error reading PDF: cannot open the file"
UnavailableError == "PyPDF2 not available. Cannot read PDF files."

\* a variant of the loop in which a failing page ends the extraction
RECURSIVE ExtractPagesAbort(_, _, _)
ExtractPagesAbort(pages, page_num, text) ==
    IF page_num > Len(pages) \/ pages[page_num].fails THEN text
    ELSE LET page == pages[page_num]
         IN  IF Strip(page.text) # <<>>
             THEN ExtractPagesAbort(pages, page_num + 1,
                      text \o <<"\n", Marker(page_num), "\n">> \o page.text \o <<"\n">>)
             ELSE ExtractPagesAbort(pages, page_num + 1, text)

\* the loop over the pages from page_num on, appending to text
RECURSIVE ExtractPages(_, _, _)
ExtractPages(pages, page_num, text) ==
    IF page_num > Len(pages) THEN text
    ELSE LET page == pages[page_num]
         IN  IF ~page.fails /\ Strip(page.text) # <<>>
             THEN ExtractPages(pages, page_num + 1,
                      text \o <<"\n", Marker(page_num), "\n">> \o page.text \o <<"\n">>)
             ELSE ExtractPages(pages, page_num + 1, text)

\* extract_text_from_pdf: the stripped text, or the exception it raises
extract_text_from_pdf(avail, openOk, pages) ==
    IF ~avail THEN [raised |-> TRUE, err |-> UnavailableError, text |-> <<>>]
    ELSE IF ~openOk THEN [raised |-> TRUE, err |-> OpenError, text |-> <<>>]
    ELSE LET text == ExtractPages(pages, 1, <<>>)
         IN  IF Strip(text) = <<>>
             THEN [raised |-> TRUE, err |-> NoTextError, text |-> <<>>]
             ELSE [raised |-> FALSE, err |-> "", text |-> Strip(text)]

\* --------------------------------------------------------------- save_audio
\* int(time.time()) at the moment of a call
Seconds == 1..MaxSecond
\* f"generated_speech_{timestamp}.mp3"
GeneratedName(timestamp) == "generated_speech_" \o ToString(timestamp) \o ".mp3"
\* the file names of the model: the generated ones and one the caller chooses
ChosenNames == {"out.mp3"}
FileNames == {GeneratedName(t) : t \in Seconds} \cup ChosenNames
\* the buffers handed to save_audio
AudioBuffers == {<<1>>, <<2, 3>>}
\* open() raises; or write() raises after `kept` bytes reached the file; or
\* both succeed
SaveEnvs(audio_data) ==
    {[open |-> "raise", write |-> "ok", kept |-> 0]}
        \cup [open : {"ok"}, write : {"raise"}, kept : 0..(Len(audio_data) - 1)]
        \cup {[open |-> "ok", write |-> "ok", kept |-> Len(audio_data)]}
Write(files, name, bytes) == [files EXCEPT ![name] = bytes]

\* a variant of save_audio whose generated name does not depend on the clock
save_audio_fixed_name(audio_data, filename, now, env, files) ==
    LET name == IF filename = "" THEN GeneratedName(1) ELSE filename
    IN  IF env.open = "raise" THEN [ret |-> NoneVal, files |-> files]
        ELSE IF env.write = "raise"
        THEN [ret |-> NoneVal, files |-> Write(files, name, SubSeq(audio_data, 1, env.kept))]
        ELSE [ret |-> name, files |-> Write(files, name, audio_data)]

\* save_audio(audio_data, filename) called at second `now`: what it returns and
\* the files afterwards; open(filename, 'wb') empties a file that exists
save_audio(audio_data, filename, now, env, files) ==
    LET name == IF filename = "" THEN GeneratedName(now) ELSE filename
    IN  IF env.open = "raise" THEN [ret |-> NoneVal, files |-> files]
        ELSE IF env.write = "raise"
        THEN [ret |-> NoneVal, files |-> Write(files, name, SubSeq(audio_data, 1, env.kept))]
        ELSE [ret |-> name, files |-> Write(files, name, audio_data)]

\* ---------------------------------------- the operations called one at a time
\* Each operation of the session controller is called with every input of its
\* domain, from every state earlier calls have left the session in.
NoOp == [op |-> "none"]

\* the window as create_widgets leaves it
Buttons(pdf) ==
    [generate |-> "normal", play |-> "disabled", save |-> "disabled",
     read_pdf |-> "disabled", import_pdf |-> IF pdf THEN "normal" ELSE "disabled"]
InitWindow ==
    /\ text_area = <<>>
    /\ current_audio = NoneVal
    /\ voice_var = ""
    /\ combo_values = <<>>
    /\ voice_mapping = [set |-> FALSE, map |-> <<>>]
    /\ btn = Buttons(PDF_AVAILABLE)
    /\ status_var = "ready"
    /\ progress = "stopped"
    /\ uiq = <<>>
    /\ workers = <<>>
    /\ directWrites = {}
    /\ returned = <<>>
    /\ stored = <<>>

InitFiles ==
    /\ disk = [n \in FileNames |-> NoneVal]
    /\ saves = <<>>
    /\ proc = "running"
    /\ cli = "start"

InitSession ==
    /\ InitFiles
    /\ client = "none"
    /\ voice_id = DefaultVoice
    /\ tmpfiles = {}
    /\ ntmp = 0
    /\ last = NoOp
    /\ InitWindow

\* setup_api_key(api_key) with a key: the client is constructed
CallSetupApiKey ==
    /\ client' = "ok"
    /\ last' = [op |-> "setup_api_key"]
    /\ UNCHANGED <<voice_id, tmpfiles, ntmp, flags, sysvars, guivars>>

CallListVoices ==
    \E remote \in RemoteListings :
        LET r == list_available_voices(client, remote)
        IN  /\ last' = [op |-> "list_available_voices", remote |-> remote,
                        configured |-> client = "ok", ret |-> r.ret,
                        raised |-> r.raised, voice_before |-> voice_id]
            /\ UNCHANGED <<client, voice_id, tmpfiles, ntmp, flags, sysvars, guivars>>

CallSelectVoice ==
    \E remote \in RemoteListings, choice \in ChoiceInputs :
        LET r == select_voice(client, voice_id, remote, choice)
        IN  /\ voice_id' = r.voice_id
            /\ last' = [op |-> "select_voice", choice |-> choice,
                        voices |-> list_available_voices(client, remote).ret,
                        raised |-> r.raised, voice_before |-> voice_id]
            /\ UNCHANGED <<client, tmpfiles, ntmp, flags, sysvars, guivars>>

CallGenerateSpeech ==
    \E text \in TextInputs, p \in PrimaryOutcomes, f \in FallbackOutcomes :
        LET r == generate_speech(client, text, p, f)
        IN  /\ last' = [op |-> "generate_speech", text |-> text, ret |-> r.ret,
                        primary |-> r.primary, post |-> r.post,
                        primaryRaised |-> r.primaryRaised,
                        yielded |-> IF r.primary = 1 THEN p.chunks ELSE <<>>,
                        fallback |-> IF r.post = 1 THEN f ELSE [kind |-> "unused"],
                        raised |-> r.raised]
            /\ UNCHANGED <<client, voice_id, tmpfiles, ntmp, flags, sysvars, guivars>>

\* generate_speech called with settings: what it returned and what it sent on
\* each transport it used
CallGenerateWith ==
    \E p \in [raises : BOOLEAN, chunks : {<<<<1>>>>}], f \in FallbackOutcomes,
       k \in SettingsInputs :
        LET text == <<"a">>
            r == generate_speech(client, text, p, f)
        IN  /\ last' = [op |-> "generate_speech", text |-> text, ret |-> r.ret,
                        primary |-> r.primary, post |-> r.post,
                        settings |-> k, voice |-> voice_id,
                        sent_primary |->
                            IF r.primary = 1
                            THEN primary_request(voice_id, text, k.stability,
                                     k.similarity_boost, k.style, k.use_speaker_boost)
                            ELSE NoneVal,
                        sent_fallback |->
                            IF r.post = 1
                            THEN fallback_request(voice_id, text, k.stability,
                                     k.similarity_boost, k.style, k.use_speaker_boost)
                            ELSE NoneVal]
            /\ UNCHANGED <<client, voice_id, tmpfiles, ntmp, flags, sysvars, guivars>>

\* a variant of run_convert that tests the typed text without stripping it
run_convert_unstripped(cl, typed, p, f) ==
    IF typed = <<>>
    THEN [rejected |-> TRUE, sent |-> <<>>, ret |-> NoneVal, primary |-> 0, post |-> 0]
    ELSE LET r == generate_speech(cl, typed, p, f)
         IN  [rejected |-> FALSE, sent |-> typed, ret |-> r.ret,
              primary |-> r.primary, post |-> r.post]

\* run, menu choice '1', from the text prompt to the return of generate_speech:
\* the typed text is stripped, and empty text goes back to the menu
run_convert(cl, typed, p, f) ==
    LET text == Strip(typed)
    IN  IF text = <<>>
        THEN [rejected |-> TRUE, sent |-> <<>>, ret |-> NoneVal, primary |-> 0, post |-> 0]
        ELSE LET r == generate_speech(cl, text, p, f)
             IN  [rejected |-> FALSE, sent |-> text, ret |-> r.ret,
                  primary |-> r.primary, post |-> r.post]

\* in run the client is configured before the menu is shown
RunConvert ==
    /\ client = "ok"
    /\ \E typed \in TextInputs, p \in PrimaryOutcomes, f \in FallbackOutcomes :
        LET r == run_convert(client, typed, p, f)
        IN  last' = [op |-> "run_convert", text |-> typed, rejected |-> r.rejected,
                     sent |-> r.sent, ret |-> r.ret, primary |-> r.primary,
                     post |-> r.post]
    /\ UNCHANGED <<client, voice_id, tmpfiles, ntmp, flags, sysvars, guivars>>

CallPlayAudio ==
    /\ ntmp < MaxTmp
    /\ \E env \in PlayEnvs :
        LET path == ntmp + 1
            r == play_audio(PYGAME_AVAILABLE, env, path, tmpfiles)
        IN  /\ tmpfiles' = r.files
            /\ ntmp' = ntmp + 1
            /\ last' = [op |-> "play_audio", path |-> path, written |-> r.written,
                        played |-> r.played, ran |-> r.ran, tried |-> r.tried,
                        announced |-> r.announced, completed |-> r.completed,
                        raised |-> r.raised]
            /\ UNCHANGED <<client, voice_id, flags, sysvars, guivars>>

\* _play_with_system(file_path) on a Linux machine
CallPlayWithSystem ==
    \E env \in PlayEnvsLinux :
        LET r == play_with_system(env)
        IN  /\ env.unlink = "ok"       \* not consulted by _play_with_system
            /\ last' = [op |-> "_play_with_system", players |-> env.players,
                        xdg |-> env.xdg, ran |-> r.ran, tried |-> r.tried,
                        probed |-> ProbePlayers(env.players, 1).probed,
                        played |-> r.played, announced |-> r.announced]
            /\ UNCHANGED <<client, voice_id, tmpfiles, ntmp, flags, sysvars, guivars>>

\* extract_text_from_pdf applied to the file drawn in InitPdf
CallExtractPdf ==
    /\ last.op = "pdf_file"
    /\ LET r == extract_text_from_pdf(PDF_AVAILABLE, last.openOk, last.pages)
       IN  last' = [op |-> "extract_text_from_pdf", pages |-> last.pages,
                    opened |-> PDF_AVAILABLE /\ last.openOk, raised |-> r.raised,
                    err |-> r.err, text |-> r.text]
    /\ UNCHANGED <<client, voice_id, tmpfiles, ntmp, flags, sysvars, guivars>>


\* voice listing and selection
InitVoice == PYGAME_AVAILABLE = FALSE /\ PDF_AVAILABLE = FALSE /\ InitSession
NextVoice == CallSetupApiKey \/ CallListVoices \/ CallSelectVoice
SpecVoice == InitVoice /\ [][NextVoice]_vars

\* speech generation
NextSpeech == CallSetupApiKey \/ CallGenerateSpeech \/ RunConvert
SpecSpeech == InitVoice /\ [][NextSpeech]_vars

\* playback
InitPlay == PYGAME_AVAILABLE \in BOOLEAN /\ PDF_AVAILABLE = FALSE /\ InitSession
NextPlay == CallPlayAudio
SpecPlay == InitPlay /\ [][NextPlay]_vars

\* playback by system commands on Linux
NextProbe == CallPlayWithSystem
SpecProbe == InitPlay /\ [][NextProbe]_vars

\* PDF text extraction, a function of the file alone
InitPdf ==
    /\ client = "none"
    /\ voice_id = DefaultVoice
    /\ tmpfiles = {}
    /\ ntmp = 0
    /\ PYGAME_AVAILABLE = FALSE
    /\ PDF_AVAILABLE \in BOOLEAN
    /\ \E pages \in PdfInputs, openOk \in BOOLEAN :
            last = [op |-> "pdf_file", pages |-> pages, openOk |-> openOk]
    /\ InitFiles
    /\ InitWindow
NextPdf == CallExtractPdf
SpecPdf == InitPdf /\ [][NextPdf]_vars

\* save_audio called with a buffer, with or without a file name, at some second
CallSaveAudio ==
    /\ Len(saves) < MaxSaves
    /\ \E audio_data \in AudioBuffers, filename \in {""} \cup ChosenNames,
          now \in Seconds :
          \E env \in SaveEnvs(audio_data) :
             LET r == save_audio(audio_data, filename, now, env, disk)
             IN  /\ disk' = r.files
                 /\ saves' = Append(saves, [audio_data |-> audio_data,
                                            filename |-> filename, now |-> now,
                                            failed |-> env.open = "raise"
                                                        \/ env.write = "raise",
                                            ret |-> r.ret])
                 /\ last' = [op |-> "save_audio"]
    /\ UNCHANGED <<client, voice_id, tmpfiles, ntmp, flags, guivars, proc, cli>>

\* a voice is selected, then speech is generated with it
NextRequest == CallSetupApiKey \/ CallSelectVoice \/ CallGenerateWith
SpecRequest == InitVoice /\ [][NextRequest]_vars

NextSave == CallSaveAudio
SpecSave == InitVoice /\ [][NextSave]_vars

\* ------------------------------------------------------ TextToSpeechApp.run
\* run(): setup_api_key and select_voice, then the menu loop.  A step is what
\* run does from one prompt to the next.

\* what the service lists while run is at its menu
MenuListings ==
    {r \in RemoteListings : r.voices \in {<<>>, <<"v2">>, <<"v1", "v2">>}}

\* setup_api_key(): the key from the environment or typed at the prompt, then
\* the client; without a key, and when the constructor raises, sys.exit(1)
RunSetup ==
    /\ Running /\ cli = "start"
    /\ \E key \in {"", "key"}, made \in Outcome :
          IF key = ""
          THEN proc' = "exit_no_key" /\ UNCHANGED <<client, cli>>
          ELSE IF made = "raise"
          THEN proc' = "exit_client_error" /\ UNCHANGED <<client, cli>>
          ELSE client' = "ok" /\ cli' = "select" /\ UNCHANGED proc
    /\ last' = [op |-> "run_setup"]
    /\ UNCHANGED <<voice_id, tmpfiles, ntmp, flags, guivars, disk, saves>>

\* select_voice(), before the loop and at menu choice '2'
RunSelectVoice ==
    /\ Running /\ cli \in {"select", "menu"}
    /\ \E remote \in MenuListings, choice \in ChoiceInputs :
          voice_id' = select_voice(client, voice_id, remote, choice).voice_id
    /\ cli' = "menu"
    /\ last' = [op |-> "run_select"]
    /\ UNCHANGED <<client, tmpfiles, ntmp, flags, guivars, disk, saves, proc>>

\* menu choice '1' up to the return of generate_speech; with audio, run goes
\* on to ask what to do with it
MenuConvert ==
    /\ Running /\ cli = "menu"
    /\ \E typed \in TextInputs, p \in [raises : BOOLEAN, chunks : {<<<<1>>>>}],
          f \in FallbackOutcomes :
          LET r == run_convert(client, typed, p, f)
          IN  IF ~r.rejected /\ Truthy(r.ret)
              THEN cli' = "audio" /\ last' = [op |-> "run_convert", audio |-> r.ret]
              ELSE cli' = "menu" /\ last' = [op |-> "run_convert", audio |-> NoneVal]
    /\ UNCHANGED <<client, voice_id, tmpfiles, ntmp, flags, guivars, disk, saves, proc>>

\* "Select option (1-3)": '1' and '3' play the audio, '2' and '3' go on to ask
\* for a file name
MenuAudioChoice ==
    /\ Running /\ cli = "audio"
    /\ \E audio_choice \in {"1", "2", "3", ""} :
          /\ IF audio_choice \in {"1", "3"}
             THEN /\ ntmp < MaxTmp
                  /\ \E env \in PlayEnvsNoProbe :
                        LET path == ntmp + 1
                            r == play_audio(PYGAME_AVAILABLE, env, path, tmpfiles)
                        IN  /\ tmpfiles' = r.files
                            /\ ntmp' = IF path \in r.files THEN ntmp + 1 ELSE ntmp
             ELSE UNCHANGED <<tmpfiles, ntmp>>
          /\ IF audio_choice \in {"2", "3"}
             THEN cli' = "save" /\ UNCHANGED last
             ELSE cli' = "menu" /\ last' = [op |-> "run_audio_choice"]
    /\ UNCHANGED <<client, voice_id, flags, guivars, disk, saves, proc>>

\* "Enter filename": save_audio with the name typed, or with none
MenuSave ==
    /\ Running /\ cli = "save"
    /\ \E filename \in {""} \cup ChosenNames, now \in Seconds :
          \E env \in SaveEnvs(last.audio) :
             disk' = save_audio(last.audio, filename, now, env, disk).files
    /\ cli' = "menu"
    /\ last' = [op |-> "run_save"]
    /\ UNCHANGED <<client, voice_id, tmpfiles, ntmp, flags, guivars, saves, proc>>

\* menu choice '4': list_available_voices; its result is dropped
MenuList ==
    /\ Running /\ cli = "menu"
    /\ \E remote \in MenuListings :
          last' = [op |-> "run_list",
                   raised |-> list_available_voices(client, remote).raised]
    /\ UNCHANGED <<client, voice_id, tmpfiles, ntmp, flags, guivars, sysvars>>

\* menu choice '3' and every choice that is not on the menu: a message
MenuOther ==
    /\ Running /\ cli = "menu"
    /\ \E choice \in {"3", "", "9"} : last' = [op |-> "run_menu", choice |-> choice]
    /\ UNCHANGED <<client, voice_id, tmpfiles, ntmp, flags, guivars, sysvars>>

\* menu choice '5': the loop is left and run returns
MenuExit ==
    /\ Running /\ cli = "menu"
    /\ proc' = "ended"
    /\ cli' = "done"
    /\ last' = [op |-> "run_exit"]
    /\ UNCHANGED <<client, voice_id, tmpfiles, ntmp, flags, guivars, disk, saves>>

NextRun ==
    \/ RunSetup
    \/ RunSelectVoice
    \/ MenuConvert
    \/ MenuAudioChoice
    \/ MenuSave
    \/ MenuList
    \/ MenuOther
    \/ MenuExit
SpecRun == InitPlay /\ [][NextRun]_vars

\* ---------------------------------------------------------------- the window
\* The event-handling thread runs one handler at a time.  A worker thread
\* advances one step at a time; a step is a stretch of its code between two
\* points where another thread's action can matter.  The callbacks a worker
\* hands to root.after within one step are run together, in their order.

\* the combobox entry of a voice: f"{voice.name} ({voice.voice_id[:8]}...)"
Display(v) == v \o "..."
\* the methods of TextToSpeechApp, the class of self.app
AppMethods ==
    {"setup_api_key", "list_available_voices", "select_voice", "generate_speech",
     "play_audio", "_play_with_pygame", "_play_with_system", "save_audio",
     "adjust_voice_settings", "run"}

Cb(f, v, by) == [f |-> f, v |-> v, by |-> by]
Worker(kind, text) ==
    [kind |-> kind, pc |-> "begin", text |-> text, chosen |-> "", voice |-> "",
     audio |-> NoneVal]
CanStart == Len(workers) < MaxWorkers
IsGen(w) == workers[w].kind \in {"generate", "read"}

\* update_char_count: the state it gives the Read PDF Aloud button
ReadBtn(text) == IF Len(Strip(text)) > 0 THEN "normal" ELSE "disabled"

\* update_voice_list(voices): the combobox, the selection and the mapping
update_voice_list(voices, values, selection, mapping, status) ==
    IF voices # <<>>
    THEN [values |-> [i \in DOMAIN voices |-> Display(voices[i])],
          selection |-> Display(voices[1]),
          mapping |-> [set |-> TRUE,
                       map |-> [n \in {Display(voices[i]) : i \in DOMAIN voices} |->
                                  voices[CHOOSE i \in DOMAIN voices :
                                      /\ Display(voices[i]) = n
                                      /\ \A j \in DOMAIN voices :
                                            Display(voices[j]) = n => j <= i]]],
          status |-> "voices_loaded"]
    ELSE [values |-> values, selection |-> selection, mapping |-> mapping,
          status |-> "no_voices"]

\* the part of the window that root.after callbacks change
UiState ==
    [progress |-> progress, status |-> status_var, btn |-> btn, text |-> text_area,
     values |-> combo_values, selection |-> voice_var, mapping |-> voice_mapping]

\* one callback run on the event-handling thread
ApplyCb(u, cb) ==
    CASE cb.f = "progress" -> [u EXCEPT !.progress = cb.v]
      [] cb.f = "status" -> [u EXCEPT !.status = cb.v]
      [] cb.f = "btn" -> [u EXCEPT !.btn[cb.v.b] = cb.v.s]
      [] cb.f = "update_char_count" -> [u EXCEPT !.btn.read_pdf = ReadBtn(u.text)]
      [] cb.f = "text_delete" -> [u EXCEPT !.text = <<>>]
      [] cb.f = "text_insert" -> [u EXCEPT !.text = cb.v]
      [] cb.f = "update_voice_list" ->
            LET r == update_voice_list(cb.v, u.values, u.selection, u.mapping, u.status)
            IN  [u EXCEPT !.values = r.values, !.selection = r.selection,
                          !.mapping = r.mapping, !.status = r.status]
      \* showerror: a message box, or (the exception it names being unbound by
      \* then) a NameError that Tk reports; no state of the window either way
      [] OTHER -> u

RECURSIVE ApplyAll(_, _)
ApplyAll(u, cbs) == IF cbs = <<>> THEN u ELSE ApplyAll(ApplyCb(u, Head(cbs)), Tail(cbs))

\* the event-handling thread runs the callbacks that one worker step handed
\* over, oldest hand-over first, one after the other
UiRun ==
    /\ Running
    /\ uiq # <<>>
    /\ LET u == ApplyAll(UiState, Head(uiq))
       IN  /\ uiq' = Tail(uiq)
           /\ progress' = u.progress
           /\ status_var' = u.status
           /\ btn' = u.btn
           /\ text_area' = u.text
           /\ combo_values' = u.values
           /\ voice_var' = u.selection
           /\ voice_mapping' = u.mapping
    /\ UNCHANGED <<appvars, flags, sysvars, current_audio, workers, directWrites, returned, stored>>

\* the process has ended: of the session and the window nothing remains (the
\* files on disk do)
Gone ==
    /\ client' = "none"
    /\ voice_id' = DefaultVoice
    /\ text_area' = <<>>
    /\ current_audio' = NoneVal
    /\ voice_var' = ""
    /\ combo_values' = <<>>
    /\ voice_mapping' = [set |-> FALSE, map |-> <<>>]
    /\ btn' = Buttons(PDF_AVAILABLE)
    /\ status_var' = "ready"
    /\ progress' = "stopped"
    /\ uiq' = <<>>
    /\ workers' = <<>>
    /\ directWrites' = {}
    /\ returned' = <<>>
    /\ stored' = <<>>

\* ------------------------------------------------------------- the handlers
\* set_api_key: with a key, the client is constructed and the voices refreshed
SetApiKey ==
    \E key \in {"", "key"}, made \in Outcome :
        /\ Running
        /\ IF key = ""
           THEN UNCHANGED vars      \* only a message box
           ELSE IF made = "raise"
           THEN \* setup_api_key calls sys.exit(1); SystemExit passes the
                \* `except Exception` of set_api_key and ends the event loop
                /\ proc' = "exit_client_error"
                /\ Gone
                /\ UNCHANGED <<tmpfiles, ntmp, last, flags, disk, saves, cli>>
           ELSE /\ CanStart
                /\ client' = "ok"
                /\ status_var' = "key_configured"
                /\ workers' = Append(workers, Worker("refresh", <<>>))
                /\ UNCHANGED <<voice_id, tmpfiles, ntmp, last, flags, sysvars,
                               text_area, current_audio, voice_var, combo_values,
                               voice_mapping, btn, progress, uiq, directWrites,
                               returned, stored>>

\* refresh_voices: always starts a thread
ClickRefresh ==
    /\ Running
    /\ CanStart
    /\ workers' = Append(workers, Worker("refresh", <<>>))
    /\ UNCHANGED <<appvars, flags, sysvars, text_area, current_audio, voice_var, combo_values,
                   voice_mapping, btn, status_var, progress, uiq, directWrites,
                   returned, stored>>

\* what generate_speech_threaded and read_pdf_aloud do before starting a thread
request_speech(text, cl) ==
    IF Strip(text) = <<>> THEN [start |-> FALSE, shown |-> "warn_no_text"]
    ELSE IF cl = "none" THEN [start |-> FALSE, shown |-> "error_no_key"]
    ELSE [start |-> TRUE, shown |-> ""]

\* a button starts a generation thread of this kind, or shows why not
SpeechClick(kind) ==
    LET r == request_speech(text_area, client)
    IN  IF r.start
        THEN /\ CanStart
             /\ workers' = Append(workers, Worker(kind, Strip(text_area)))
        ELSE UNCHANGED workers      \* only a message box

\* generate_speech_threaded, the command of the Generate Speech button
ClickGenerate ==
    /\ Running
    /\ btn.generate = "normal"
    /\ SpeechClick("generate")
    /\ UNCHANGED <<appvars, flags, sysvars, text_area, current_audio, voice_var, combo_values,
                   voice_mapping, btn, status_var, progress, uiq, directWrites,
                   returned, stored>>

\* read_pdf_aloud: a text longer than this is asked about
LongDocument == 5000
\* "... [Document truncated for audio generation]", character by character
TruncationMarker ==
    <<
      ".", ".", ".", " ", "[", "D", "o", "c", "u", "m", "e", "n", "t", " ", "t", "r", "u",
      "n", "c", "a", "t", "e", "d", " ", "f", "o", "r", " ", "a", "u", "d", "i", "o", " ",
      "g", "e", "n", "e", "r", "a", "t", "i", "o", "n", "]"
    >>
\* the answers to askyesnocancel: True, False, None
Answers == {"yes", "no", "cancel"}

\* a variant of read_pdf_aloud that cuts the text without marking it
read_pdf_aloud_unmarked(text, cl, choice) ==
    LET t == Strip(text)
        r == request_speech(text, cl)
    IN  IF ~r.start
        THEN [start |-> FALSE, text |-> <<>>, asked |-> FALSE, shown |-> r.shown]
        ELSE IF Len(t) > LongDocument
        THEN [start |-> choice # "cancel",
              text |-> IF choice = "no" THEN SubSeq(t, 1, LongDocument) ELSE t,
              asked |-> TRUE, shown |-> ""]
        ELSE [start |-> TRUE, text |-> t, asked |-> FALSE, shown |-> ""]

\* read_pdf_aloud up to the start of the thread: whether a thread is started,
\* the text it is given, whether the user was asked, the message box shown
read_pdf_aloud(text, cl, choice) ==
    LET t == Strip(text)
        r == request_speech(text, cl)
    IN  IF ~r.start
        THEN [start |-> FALSE, text |-> <<>>, asked |-> FALSE, shown |-> r.shown]
        ELSE IF Len(t) > LongDocument
        THEN IF choice = "cancel"
             THEN [start |-> FALSE, text |-> <<>>, asked |-> TRUE, shown |-> ""]
             ELSE IF choice = "no"
             THEN [start |-> TRUE, text |-> SubSeq(t, 1, LongDocument) \o TruncationMarker,
                   asked |-> TRUE, shown |-> ""]
             ELSE [start |-> TRUE, text |-> t, asked |-> TRUE, shown |-> ""]
        ELSE [start |-> TRUE, text |-> t, asked |-> FALSE, shown |-> ""]

\* the Read PDF Aloud button is clicked and the user answers, if asked
ReadPdfAloud(choice) ==
    LET r == read_pdf_aloud(text_area, client, choice)
    IN  IF r.start
        THEN /\ CanStart
             /\ workers' = Append(workers, Worker("read", r.text))
        ELSE UNCHANGED workers      \* only message boxes

\* read_pdf_aloud, the command of the Read PDF Aloud button
ClickReadPdf ==
    /\ Running
    /\ btn.read_pdf = "normal"
    /\ \E choice \in (IF read_pdf_aloud(text_area, client, "yes").asked
                      THEN Answers ELSE {"yes"}) : ReadPdfAloud(choice)
    /\ UNCHANGED <<appvars, flags, sysvars, text_area, current_audio, voice_var, combo_values,
                   voice_mapping, btn, status_var, progress, uiq, directWrites,
                   returned, stored>>

\* play_audio of the window up to the start of the thread
gui_play_audio(audio) ==
    IF ~Truthy(audio) THEN [start |-> FALSE, shown |-> "warn_no_audio"]
    ELSE [start |-> TRUE, shown |-> ""]

\* save_audio of the window: the files afterwards, the status line and the
\* message box; app.save_audio catches its own exceptions, so the success
\* message follows every call of it
gui_save_audio(audio, filename, env, files, status) ==
    IF ~Truthy(audio) THEN [files |-> files, status |-> status, shown |-> "warn_no_audio"]
    ELSE IF filename = "" THEN [files |-> files, status |-> status, shown |-> ""]
    ELSE [files |-> save_audio(audio, filename, 1, env, files).files,
          status |-> "saved", shown |-> "info_saved"]

\* save_audio, the command of the Save Audio button
ClickSave ==
    /\ Running
    /\ btn.save = "normal"
    /\ \E filename \in {""} \cup ChosenNames :
          \E env \in (IF Truthy(current_audio) THEN SaveEnvs(current_audio)
                      ELSE {[open |-> "ok", write |-> "ok", kept |-> 0]}) :
             LET r == gui_save_audio(current_audio, filename, env, disk, status_var)
             IN  /\ disk' = r.files
                 /\ status_var' = r.status
    /\ UNCHANGED <<appvars, flags, saves, proc, cli, text_area, current_audio, voice_var,
                   combo_values, voice_mapping, btn, progress, uiq, workers,
                   directWrites, returned, stored>>

\* play_audio, the command of the Play Audio button
ClickPlay ==
    /\ Running
    /\ btn.play = "normal"
    /\ IF ~gui_play_audio(current_audio).start
       THEN UNCHANGED workers       \* only a message box
       ELSE CanStart /\ workers' = Append(workers, Worker("play", <<>>))
    /\ UNCHANGED <<appvars, flags, sysvars, text_area, current_audio, voice_var, combo_values,
                   voice_mapping, btn, status_var, progress, uiq, directWrites,
                   returned, stored>>

\* what the text area can hold
GuiTexts == {<<>>, <<" ">>, <<" ", "b">>}

\* the user edits the text area (or clicks into it): update_char_count runs
SetText(t) ==
    /\ Running
    /\ text_area' = t
    /\ btn' = [btn EXCEPT !.read_pdf = ReadBtn(t)]
    /\ UNCHANGED <<appvars, flags, sysvars, current_audio, voice_var, combo_values,
                   voice_mapping, status_var, progress, uiq, workers,
                   directWrites, returned, stored>>
EditText == \E t \in GuiTexts : SetText(t)

\* a document of n characters
Document(n) == [i \in 1..n |-> IF i > LongDocument THEN "z" ELSE "a"]
\* the documents the user pastes: of 5000 characters and a trailing blank, and
\* of 5001 characters
Documents == {Document(LongDocument) \o <<" ">>, Document(LongDocument + 1)}
PasteDocument == \E t \in Documents : SetText(t)

\* the user picks another entry of the combobox
SelectCombo ==
    \E i \in DOMAIN combo_values :
        /\ Running
        /\ voice_var' = combo_values[i]
        /\ UNCHANGED <<appvars, flags, sysvars, text_area, current_audio, combo_values,
                       voice_mapping, btn, status_var, progress, uiq, workers,
                       directWrites, returned, stored>>

\* clear_text, after the confirmation
ClearText ==
    /\ Running
    /\ text_area' = <<>>
    /\ btn' = [btn EXCEPT !.read_pdf = ReadBtn(<<>>)]
    /\ status_var' = "text_cleared"
    /\ UNCHANGED <<appvars, flags, sysvars, current_audio, voice_var, combo_values,
                   voice_mapping, progress, uiq, workers, directWrites,
                   returned, stored>>

\* the file the user picks in import_text_file: none, unreadable, or this text
FileOutcomes ==
    {[kind |-> "cancel", text |-> <<>>], [kind |-> "fail", text |-> <<>>]}
        \cup [kind : {"ok"}, text : GuiTexts]

\* a variant of import_text_file that empties the text area before reading
import_text_file_delete_first(file, text, readBtn, status) ==
    IF file.kind = "cancel"
    THEN [text |-> text, read_pdf |-> readBtn, status |-> status, shown |-> ""]
    ELSE IF file.kind = "fail"
    THEN [text |-> <<>>, read_pdf |-> readBtn, status |-> "text_import_failed",
          shown |-> "error_import_text"]
    ELSE [text |-> file.text, read_pdf |-> ReadBtn(file.text),
          status |-> "text_imported", shown |-> ""]

\* import_text_file: the text area, the Read PDF Aloud button and the status
\* line after it, and the message box it shows
import_text_file(file, text, readBtn, status) ==
    IF file.kind = "cancel"
    THEN [text |-> text, read_pdf |-> readBtn, status |-> status, shown |-> ""]
    ELSE IF file.kind = "fail"
    THEN [text |-> text, read_pdf |-> readBtn, status |-> "text_import_failed",
          shown |-> "error_import_text"]
    ELSE [text |-> file.text, read_pdf |-> ReadBtn(file.text),
          status |-> "text_imported", shown |-> ""]

ImportTextFile(file) ==
    LET r == import_text_file(file, text_area, btn.read_pdf, status_var)
    IN  /\ Running
        /\ text_area' = r.text
        /\ btn' = [btn EXCEPT !.read_pdf = r.read_pdf]
        /\ status_var' = r.status
        /\ UNCHANGED <<appvars, flags, sysvars, current_audio, voice_var, combo_values,
                       voice_mapping, progress, uiq, workers, directWrites, returned,
                       stored>>
ClickImportText == \E file \in FileOutcomes : ImportTextFile(file)

\* import_pdf, the command of the Import PDF button
ClickImportPdf ==
    /\ Running
    /\ btn.import_pdf = "normal"
    /\ IF ~PDF_AVAILABLE
       THEN UNCHANGED workers       \* only a message box
       ELSE \E chosen \in BOOLEAN :
               IF chosen
               THEN CanStart /\ workers' = Append(workers, Worker("import", <<>>))
               ELSE UNCHANGED workers
    /\ UNCHANGED <<appvars, flags, sysvars, text_area, current_audio, voice_var, combo_values,
                   voice_mapping, btn, status_var, progress, uiq, directWrites,
                   returned, stored>>

\* ------------------------------------------------------- the worker threads
SetBtn(b, s, by) == Cb("btn", [b |-> b, s |-> s], by)
\* a thread that has ended: nothing of it remains but its place in the list
Ended ==
    [kind |-> "ended", pc |-> "done", text |-> <<>>, chosen |-> "", voice |-> "",
     audio |-> NoneVal]
SetPc(w, pc) ==
    workers' = IF pc = "done" THEN [workers EXCEPT ![w] = Ended]
               ELSE [workers EXCEPT ![w].pc = pc]

\* refresh_thread, first statements: the status line and the progress bar are
\* set from the worker thread itself
RefreshBegin(w) ==
    /\ Running
    /\ workers[w].kind = "refresh" /\ workers[w].pc = "begin"
    /\ status_var' = "loading_voices"
    /\ progress' = "running"
    /\ directWrites' = directWrites \cup {"status_var", "progress"}
    /\ SetPc(w, "list")
    /\ UNCHANGED <<appvars, flags, sysvars, text_area, current_audio, voice_var, combo_values,
                   voice_mapping, btn, uiq, returned, stored>>

\* what the service lists while the window runs
GuiListings ==
    {r \in RemoteListings : r.voices \in {<<>>, <<"v2">>, <<"v1", "v2">>}}

\* refresh_thread: the listing returns and the callbacks are handed over
RefreshList(w) ==
    /\ Running
    /\ workers[w].kind = "refresh" /\ workers[w].pc = "list"
    /\ \E remote \in GuiListings :
          uiq' = Append(uiq, <<Cb("update_voice_list",
                                  list_available_voices(client, remote).ret, "refresh"),
                               Cb("progress", "stopped", "refresh")>>)
    /\ SetPc(w, "done")
    /\ UNCHANGED <<appvars, flags, sysvars, text_area, current_audio, voice_var, combo_values,
                   voice_mapping, btn, status_var, progress, directWrites,
                   returned, stored>>

\* the callbacks generate_thread and read_thread hand over
GenStartCbs(kind) ==
    IF kind = "generate"
    THEN <<Cb("progress", "running", kind), Cb("status", "generating", kind),
           SetBtn("generate", "disabled", kind)>>
    ELSE <<Cb("progress", "running", kind), Cb("status", "generating_document", kind),
           SetBtn("read_pdf", "disabled", kind), SetBtn("generate", "disabled", kind)>>
GenOkCbs(kind) ==
    <<Cb("status", IF kind = "generate" THEN "generated" ELSE "playing_document", kind),
      SetBtn("play", "normal", kind), SetBtn("save", "normal", kind)>>
\* a variant of the failure callbacks that enables the Play Audio button
GenFailCbs_enable_play(kind) ==
    <<Cb("status", "generate_failed", kind), SetBtn("play", "normal", kind)>>

GenFailCbs(kind) == <<Cb("status", "generate_failed", kind)>>
GenExceptCbs(kind) ==
    <<Cb("showerror", "error_generate", kind), Cb("status", "generation_failed", kind)>>
\* a variant of the finally branch that stops the progress bar only
GenFinallyCbs_no_enable(kind) == <<Cb("progress", "stopped", kind)>>

GenFinallyCbs(kind) ==
    IF kind = "generate"
    THEN <<Cb("progress", "stopped", kind), SetBtn("generate", "normal", kind)>>
    ELSE <<Cb("progress", "stopped", kind), SetBtn("read_pdf", "normal", kind),
           SetBtn("generate", "normal", kind)>>

\* generate_thread / read_thread up to the call of generate_speech: the start
\* callbacks, then the selected voice is looked up and written to app.voice_id
\* (`chosen` is the id the thread looked up, "" when it looked nothing up)
GenBegin(w) ==
    /\ Running
    /\ IsGen(w) /\ workers[w].pc = "begin"
    /\ LET kind == workers[w].kind
           lookup == voice_var # "" /\ voice_mapping.set
       IN  IF lookup /\ voice_var \notin DOMAIN voice_mapping.map
           THEN \* KeyError: the except and the finally branch
                /\ uiq' = Append(uiq, GenStartCbs(kind) \o GenExceptCbs(kind)
                                          \o GenFinallyCbs(kind))
                /\ SetPc(w, "done")
                /\ UNCHANGED <<voice_id, directWrites>>
           ELSE /\ uiq' = Append(uiq, GenStartCbs(kind))
                /\ voice_id' = IF lookup THEN voice_mapping.map[voice_var] ELSE voice_id
                /\ directWrites' = IF lookup THEN directWrites \cup {"voice_id"}
                                   ELSE directWrites
                /\ workers' = [workers EXCEPT
                                  ![w].pc = "call",
                                  ![w].chosen = IF lookup THEN voice_mapping.map[voice_var]
                                                ELSE ""]
    /\ UNCHANGED <<client, tmpfiles, ntmp, last, flags, sysvars, text_area, current_audio,
                   voice_var, combo_values, voice_mapping, btn, status_var, progress,
                   returned, stored>>

\* generate_speech is entered: the request carries self.voice_id as it is now
GenCall(w) ==
    /\ Running
    /\ IsGen(w) /\ workers[w].pc = "call"
    /\ workers' = [workers EXCEPT ![w].pc = "wait", ![w].chosen = "", ![w].voice = voice_id]
    /\ UNCHANGED <<appvars, flags, sysvars, text_area, current_audio, voice_var, combo_values,
                   voice_mapping, btn, status_var, progress, uiq, directWrites,
                   returned, stored>>

\* what the service can answer to the request of worker w
GenPrimary(w) ==
    {[raises |-> FALSE, chunks |-> <<<<w>>>>], [raises |-> FALSE, chunks |-> <<>>],
     [raises |-> TRUE, chunks |-> <<>>]}
GenFallback(w) ==
    {[kind |-> "response", status |-> 200, body |-> <<w>>],
     [kind |-> "response", status |-> 500, body |-> <<>>],
     [kind |-> "raise", status |-> 0, body |-> <<>>]}

\* generate_speech returns to the worker
GenReturn(w) ==
    /\ Running
    /\ IsGen(w) /\ workers[w].pc = "wait"
    /\ \E p \in GenPrimary(w), f \in GenFallback(w) :
          LET r == generate_speech(client, workers[w].text, p, f)
          IN  /\ workers' = [workers EXCEPT ![w].pc = "store", ![w].audio = r.ret]
              /\ returned' = IF Truthy(r.ret) THEN Append(returned, w) ELSE returned
    /\ UNCHANGED <<appvars, flags, sysvars, text_area, current_audio, voice_var, combo_values,
                   voice_mapping, btn, status_var, progress, uiq, directWrites,
                   stored>>

\* a variant of the store that keeps audio already held
store_audio_keep_first(held, audio) == IF Truthy(held) THEN held ELSE audio

\* a variant of the store that drops the audio
store_audio_drop(held, audio) == NoneVal

\* `self.current_audio = audio_data`
store_audio(held, audio) == audio

\* `if audio_data:` the worker stores the audio itself and hands over the
\* callbacks; generate_thread then ends, read_thread goes on to play
GenStore(w) ==
    /\ Running
    /\ IsGen(w) /\ workers[w].pc = "store"
    /\ LET kind == workers[w].kind
           audio == workers[w].audio
       IN  IF Truthy(audio)
           THEN /\ current_audio' = store_audio(current_audio, audio)
                /\ stored' = Append(stored, w)
                /\ directWrites' = directWrites \cup {"current_audio"}
                /\ IF kind = "generate"
                   THEN uiq' = Append(uiq, GenOkCbs(kind) \o GenFinallyCbs(kind))
                        /\ SetPc(w, "done")
                   ELSE uiq' = Append(uiq, GenOkCbs(kind)) /\ SetPc(w, "play")
           ELSE /\ uiq' = Append(uiq, GenFailCbs(kind) \o GenFinallyCbs(kind))
                /\ SetPc(w, "done")
                /\ UNCHANGED <<current_audio, stored, directWrites>>
    /\ UNCHANGED <<appvars, flags, sysvars, text_area, voice_var, combo_values, voice_mapping,
                   btn, status_var, progress, returned>>

\* how a playback started from the window can go
GuiPlayEnvs == {[PlayEnvBase EXCEPT !.pygame = g] : g \in Outcome}

\* self.app.play_audio called from a thread of the window: the temporary file
\* gets a name no file left behind has
PlayInThread ==
    /\ ntmp < MaxTmp
    /\ \E env \in GuiPlayEnvs :
          LET path == ntmp + 1
              r == play_audio(PYGAME_AVAILABLE, env, path, tmpfiles)
          IN  /\ tmpfiles' = r.files
              /\ ntmp' = IF path \in r.files THEN ntmp + 1 ELSE ntmp

\* read_thread: play_audio(audio_data) blocks until the playback is over
ReadPlay(w) ==
    /\ Running
    /\ workers[w].kind = "read" /\ workers[w].pc = "play"
    /\ PlayInThread
    /\ uiq' = Append(uiq, <<Cb("status", "document_read", "read")>>
                                \o GenFinallyCbs("read"))
    /\ SetPc(w, "done")
    /\ UNCHANGED <<client, voice_id, last, flags, sysvars, text_area, current_audio,
                   voice_var, combo_values, voice_mapping, btn, status_var, progress,
                   directWrites, returned, stored>>

\* play_thread: plays self.current_audio as it is when the thread runs
PlayRun(w) ==
    /\ Running
    /\ workers[w].kind = "play" /\ workers[w].pc = "begin"
    /\ PlayInThread
    /\ uiq' = Append(uiq, <<Cb("status", "playing", "play"),
                             Cb("status", "playback_completed", "play")>>)
    /\ SetPc(w, "done")
    /\ UNCHANGED <<client, voice_id, last, flags, sysvars, text_area, current_audio,
                   voice_var, combo_values, voice_mapping, btn, status_var, progress,
                   directWrites, returned, stored>>

\* import_thread: self.app is a TextToSpeechApp, so the call of
\* self.app.extract_text_from_pdf raises AttributeError unless that class has
\* the method; every exception ends in the except and the finally branch
import_thread_cbs(methods, avail, openOk, pages) ==
    LET r == IF "extract_text_from_pdf" \in methods
             THEN extract_text_from_pdf(avail, openOk, pages)
             ELSE [raised |-> TRUE, err |-> "AttributeError", text |-> <<>>]
    IN  <<Cb("progress", "running", "import"), Cb("status", "reading_pdf", "import"),
          SetBtn("import_pdf", "disabled", "import")>>
        \o (IF r.raised
            THEN <<Cb("showerror", "error_import_pdf", "import"),
                   Cb("status", "pdf_import_failed", "import")>>
            ELSE <<Cb("text_delete", <<>>, "import"), Cb("text_insert", r.text, "import"),
                   Cb("update_char_count", <<>>, "import"),
                   Cb("status", "pdf_imported", "import")>>)
        \o <<Cb("progress", "stopped", "import"),
             SetBtn("import_pdf", "normal", "import")>>

\* the PDF files the user picks: one without pages, one with a page of text
GuiPdfs == {<<>>, <<[fails |-> FALSE, text |-> <<"a">>]>>}
\* import_thread run on a file that opens or not and has the given pages
ImportFile(w, openOk, pages) ==
    /\ workers[w].kind = "import" /\ workers[w].pc = "begin"
    /\ uiq' = Append(uiq, import_thread_cbs(AppMethods, PDF_AVAILABLE, openOk, pages))
    /\ SetPc(w, "done")

ImportRun(w) ==
    /\ Running
    /\ \E openOk \in BOOLEAN, pages \in GuiPdfs : ImportFile(w, openOk, pages)
    /\ UNCHANGED <<appvars, flags, sysvars, text_area, current_audio, voice_var, combo_values,
                   voice_mapping, btn, status_var, progress, directWrites,
                   returned, stored>>

RefreshStep(w) == RefreshBegin(w) \/ RefreshList(w)
SpeechStep(w) == GenBegin(w) \/ GenCall(w) \/ GenReturn(w) \/ GenStore(w)
WorkerStep(w) ==
    \/ RefreshStep(w)
    \/ SpeechStep(w)
    \/ ReadPlay(w)
    \/ PlayRun(w)
    \/ ImportRun(w)

\* the windowed front end
Init ==
    /\ PYGAME_AVAILABLE = TRUE
    /\ PDF_AVAILABLE = TRUE
    /\ InitSession

Next ==
    \/ UiRun
    \/ SetApiKey
    \/ ClickRefresh
    \/ ClickGenerate
    \/ ClickReadPdf
    \/ ClickPlay
    \/ EditText
    \/ SelectCombo
    \/ ClearText
    \/ ClickImportText
    \/ ClickImportPdf
    \/ \E w \in DOMAIN workers : WorkerStep(w)

Spec == Init /\ [][Next]_vars

\* a session in which the user sets the key, types, picks voices and uses the
\* Generate Speech, Read PDF Aloud and Play Audio buttons
NextGenerate ==
    \/ UiRun
    \/ SetApiKey
    \/ EditText
    \/ SelectCombo
    \/ ClickGenerate
    \/ ClickReadPdf
    \/ ClickPlay
    \/ \E w \in DOMAIN workers :
          RefreshStep(w) \/ SpeechStep(w) \/ ReadPlay(w) \/ PlayRun(w)

SpecGenerate == Init /\ [][NextGenerate]_vars

\* a session in which the user sets the key, types, clears, generates speech and
\* imports text files and PDF files
NextImport ==
    \/ UiRun
    \/ SetApiKey
    \/ EditText
    \/ ClearText
    \/ ClickGenerate
    \/ ClickImportText
    \/ ClickImportPdf
    \/ \E w \in DOMAIN workers : RefreshStep(w) \/ SpeechStep(w) \/ ImportRun(w)

SpecImport == Init /\ [][NextImport]_vars

\* a session started with the key in the environment, in which the user pastes
\* long documents and has them read aloud, one reading at a time
\* the window constructed with ELEVENLABS_API_KEY set: setup_api_key has run
\* set_api_key, which made the client and started the first refresh thread
InitKey ==
    /\ PYGAME_AVAILABLE = TRUE
    /\ PDF_AVAILABLE = TRUE
    /\ InitFiles
    /\ client = "ok"
    /\ voice_id = DefaultVoice
    /\ tmpfiles = {}
    /\ ntmp = 0
    /\ last = NoOp
    /\ text_area = <<>>
    /\ current_audio = NoneVal
    /\ voice_var = ""
    /\ combo_values = <<>>
    /\ voice_mapping = [set |-> FALSE, map |-> <<>>]
    /\ btn = Buttons(PDF_AVAILABLE)
    /\ status_var = "key_configured"
    /\ progress = "stopped"
    /\ uiq = <<>>
    /\ workers = <<Worker("refresh", <<>>)>>
    /\ directWrites = {}
    /\ returned = <<>>
    /\ stored = <<>>

\* the user clicks Read PDF Aloud while no reading is under way
ReadWhenIdle ==
    /\ \A w \in DOMAIN workers : ~IsGen(w)
    /\ ClickReadPdf

NextRead ==
    \/ UiRun
    \/ PasteDocument
    \/ ReadWhenIdle
    \/ \E w \in DOMAIN workers :
          RefreshStep(w) \/ SpeechStep(w) \/ ReadPlay(w) \/ PlayRun(w)

SpecRead == InitKey /\ [][NextRead]_vars

\* a step of worker thread w in a session of typing, generating and reading aloud
SpeechSessionStep(w) ==
    /\ w \in DOMAIN workers
    /\ RefreshStep(w) \/ SpeechStep(w) \/ ReadPlay(w)

\* the user types a text into the text area
TypeText == SetText(<<" ", "b">>)

\* a session started with the key in the environment, in which the user types,
\* clicks Generate Speech at any time and Read PDF Aloud while nothing is being
\* generated
NextProgress ==
    \/ UiRun
    \/ TypeText
    \/ ClickGenerate
    \/ ReadWhenIdle
    \/ \E w \in 1..MaxWorkers : SpeechSessionStep(w)

\* every thread that can take a step is scheduled (the remote call and the
\* playback return), and the event loop runs the callbacks handed over
FairProgress ==
    /\ WF_vars(UiRun)
    /\ \A w \in 1..MaxWorkers : WF_vars(SpeechSessionStep(w))

SpecProgress == InitKey /\ [][NextProgress]_vars /\ FairProgress

\* a step of worker thread w in a session of generating, playing and saving
AudioSessionStep(w) ==
    /\ w \in DOMAIN workers
    /\ RefreshStep(w) \/ SpeechStep(w) \/ ReadPlay(w) \/ PlayRun(w)

\* a session started with the key in the environment, in which the user types,
\* generates speech, has the text read aloud, and plays and saves the audio
NextAudio ==
    \/ UiRun
    \/ TypeText
    \/ ClickGenerate
    \/ ReadWhenIdle
    \/ ClickPlay
    \/ ClickSave
    \/ \E w \in 1..MaxWorkers : AudioSessionStep(w)

SpecAudio == InitKey /\ [][NextAudio]_vars

\* ===================================================================== claims

\* C1: whenever the primary path of generate_speech raises, the fallback POST is
\* attempted exactly once; if the fallback raises or answers with a status other
\* than 200 the call returns None; nothing is raised to the caller.
C1_FallbackOnce ==
    (last.op = "generate_speech" /\ last.primaryRaised) =>
        /\ last.post = 1
        /\ last.primary <= 1
        /\ ~last.raised
        /\ ~(last.fallback.kind = "response" /\ last.fallback.status = 200)
               => last.ret = NoneVal
C1_Witness ==
    /\ last.op = "generate_speech"
    /\ last.primaryRaised /\ last.primary = 1 /\ last.post = 1
    /\ last.fallback.kind = "response" /\ last.fallback.status = 500
    /\ last.fallback.body # <<>>
    /\ last.ret = NoneVal

\* C2 as stated: generate_speech called with empty text returns failure and
\* attempts neither the primary call nor the fallback POST.
C2_EmptyTextNoCall ==
    (last.op = "generate_speech" /\ last.text = <<>>) =>
        last.primary = 0 /\ last.post = 0 /\ last.ret = NoneVal
\* C2 amended: text that is empty after stripping, entered at menu choice 1 of
\* run, is rejected before generate_speech is called: no audio and no call on
\* either transport; text that is not empty is sent stripped.
C2_FrontEndRejectsEmpty ==
    last.op = "run_convert" =>
        IF Strip(last.text) = <<>>
        THEN last.rejected /\ last.primary = 0 /\ last.post = 0 /\ last.ret = NoneVal
        ELSE ~last.rejected /\ last.sent = Strip(last.text) /\ last.primary + last.post >= 1
C2_Witness ==
    /\ last.op = "run_convert"
    /\ last.text = <<" ">>
    /\ last.rejected /\ last.primary = 0 /\ last.post = 0

\* C6 as stated: whenever play_audio wrote the temporary file and did not get
\* the audio played, the file still exists when play_audio returns, and no
\* exception leaves play_audio.
C6_FileKeptOnFailure ==
    (last.op = "play_audio" /\ last.written /\ ~last.played) =>
        last.path \in tmpfiles /\ ~last.raised

\* C7 as stated: after select_voice, a number n in 1..len(voices) has selected
\* the n-th listed voice, and after every other input (or an empty listing) the
\* selected voice is the default voice; no error reaches the caller.
ValidChoice(choice, voices) ==
    /\ choice \in DigitChoices
    /\ 1 <= IntOf(choice) /\ IntOf(choice) <= Len(voices)
C7_SelectVoice ==
    last.op = "select_voice" =>
        /\ ~last.raised
        /\ IF ValidChoice(last.choice, last.voices)
           THEN voice_id = last.voices[IntOf(last.choice)]
           ELSE voice_id = DefaultVoice

\* C8: list_available_voices never raises; when the client is not configured or
\* the remote listing fails it returns the empty sequence, otherwise the voices
\* in the order the service supplied them; the selected voice is unchanged.
C8_ListVoices ==
    last.op = "list_available_voices" =>
        /\ ~last.raised
        /\ IF last.configured /\ last.remote.ok
           THEN last.ret = last.remote.voices
           ELSE last.ret = <<>>
        /\ voice_id = last.voice_before
C8_Witness ==
    /\ last.op = "list_available_voices"
    /\ last.configured /\ ~last.remote.ok
    /\ Len(last.remote.voices) = 2
    /\ last.ret = <<>>
    /\ voice_id # DefaultVoice

\* C9: extract_text_from_pdf skips a failing page and goes on with the later
\* ones; the result consists of exactly the pages with non-blank text, in page
\* order, each after the marker with its own 1-based page number; with no such
\* page the call fails with the no-text error.
NonBlankPages(pages) ==
    {i \in DOMAIN pages : ~pages[i].fails /\ Strip(pages[i].text) # <<>>}
Kth(S, k) == CHOOSE i \in S : Cardinality({j \in S : j < i}) = k - 1
\* the text cut at its markers: the markers in order, each with what follows it
RECURSIVE SplitAtMarkers(_, _)
SplitAtMarkers(t, Ms) ==
    IF t = <<>> THEN <<>>
    ELSE LET init == SplitAtMarkers(SubSeq(t, 1, Len(t) - 1), Ms)
             x == t[Len(t)]
         IN  IF x \in Ms THEN Append(init, [marker |-> x, body |-> <<>>])
             ELSE IF init = <<>> THEN <<>>
             ELSE [init EXCEPT ![Len(init)].body = Append(@, x)]
C9_PdfPages ==
    (last.op = "extract_text_from_pdf" /\ last.opened) =>
        LET pages == last.pages
            nb == NonBlankPages(pages)
            Ms == {Marker(n) : n \in DOMAIN pages}
            parts == SplitAtMarkers(last.text, Ms)
        IN  IF nb = {}
            THEN last.raised /\ last.err = NoTextError
            ELSE /\ ~last.raised
                 /\ last.text[1] \in Ms
                 /\ Len(parts) = Cardinality(nb)
                 /\ \A k \in DOMAIN parts :
                        /\ parts[k].marker = Marker(Kth(nb, k))
                        /\ Strip(parts[k].body) = Strip(pages[Kth(nb, k)].text)
C9_Witness ==
    /\ last.op = "extract_text_from_pdf"
    /\ ~last.raised
    /\ Len(last.pages) = 3
    /\ last.pages[1].fails
    /\ last.pages[2].text = <<" ">>
    /\ last.pages[3].text = <<"b", " ">>
    /\ last.text = <<Marker(3), "\n", "b">>

\* C3: no worker thread of the window changes the status text, the progress
\* bar, a button, the combobox or the text area itself; every such write runs
\* on the event-handling thread through root.after.  Here: no write to the
\* status text or the progress bar was ever made by a worker's own step.
C3_NoDirectUiWrite == directWrites \cap {"status_var", "progress"} = {}

\* C4: current_audio and app.voice_id are only ever written on the
\* event-handling thread.  Here: no write to either field was ever made by a
\* worker's own step.
C4_SessionFieldsOnUiThread == directWrites \cap {"current_audio", "voice_id"} = {}

\* no generate_thread or read_thread is still running
NoSpeechThread == \A w \in DOMAIN workers : ~IsGen(w)
\* the audio the service returned to worker w
AudioOf(w) == <<w>>

\* C5 as stated: once two requests have both succeeded and every generation
\* thread has ended, the audio held is that of the request whose
\* generate_speech call returned last.
C5_LaterCompletionWins ==
    (NoSpeechThread /\ Len(returned) >= 2) =>
        current_audio = AudioOf(returned[Len(returned)])

\* C5, amended: overlapping requests are possible, and the audio held is always
\* that of the request whose thread assigned current_audio last (None as long
\* as no thread has), whatever order the requests were started in or their
\* generate_speech calls returned in.
C5_LastStoreWins ==
    current_audio = IF stored = <<>> THEN NoneVal ELSE AudioOf(stored[Len(stored)])
C5_Witness ==
    /\ NoSpeechThread
    /\ Len(stored) = 2 /\ Len(returned) = 2
    /\ stored[1] > stored[2]
    /\ returned[1] < returned[2]
    /\ current_audio = AudioOf(stored[2])

\* a text file that cannot be read or decoded
UnreadableFile == [kind |-> "fail", text |-> <<>>]
\* the callbacks of an import_thread whose extraction raised
FailedImportCbs(cbs) ==
    /\ cbs # <<>> /\ cbs[1].by = "import"
    /\ \E i \in DOMAIN cbs : cbs[i].f = "showerror"
\* `prior state untouched`
ImportFrame == UNCHANGED <<text_area, current_audio, voice_id>>

\* C10: a failing text-file or PDF import is reported and leaves the text area,
\* the audio held and the selected voice as they were: the failing
\* import_text_file shows an error and sets the failure status; a failing
\* import_thread hands over an error box and the failure status, and neither
\* import_pdf, the thread nor its callbacks change the three.
C10_FailedImportKeepsState ==
    [][/\ ImportTextFile(UnreadableFile) =>
            /\ ImportFrame
            /\ status_var' = "text_import_failed"
            /\ import_text_file(UnreadableFile, text_area, btn.read_pdf,
                                status_var).shown = "error_import_text"
       /\ ClickImportPdf => ImportFrame
       /\ (\E w \in DOMAIN workers : ImportRun(w)) =>
            /\ ImportFrame
            /\ Len(uiq') = Len(uiq) + 1
            /\ FailedImportCbs(uiq'[Len(uiq')])
            /\ \E i \in DOMAIN uiq'[Len(uiq')] :
                  uiq'[Len(uiq')][i] = Cb("status", "pdf_import_failed", "import")
       /\ (UiRun /\ FailedImportCbs(Head(uiq))) =>
            /\ ImportFrame
            /\ status_var' = "pdf_import_failed"]_vars
C10_Witness ==
    /\ status_var = "text_import_failed"
    /\ text_area # <<>>
    /\ Truthy(current_audio)
    /\ voice_id # DefaultVoice
    /\ \E i \in DOMAIN uiq : FailedImportCbs(uiq[i])

\* the calls of save_audio made without a file name
GeneratedSaves == {i \in DOMAIN saves : saves[i].filename = ""}

\* C11: when the save_audio calls made without a file name happened at pairwise
\* different seconds, every such call that succeeded returned the name
\* generated_speech_<its second>.mp3 and that file holds exactly the bytes the
\* call was given; and every call that failed returned None.
C11_SaveRoundTrip ==
    /\ (\A i, j \in GeneratedSaves : i # j => saves[i].now # saves[j].now) =>
          \A i \in GeneratedSaves :
             ~saves[i].failed =>
                /\ saves[i].ret = GeneratedName(saves[i].now)
                /\ disk[saves[i].ret] = saves[i].audio_data
    /\ \A i \in DOMAIN saves : saves[i].failed => saves[i].ret = NoneVal
C11_Witness ==
    /\ Len(saves) = 2
    /\ GeneratedSaves = {1, 2}
    /\ ~saves[1].failed /\ ~saves[2].failed
    /\ saves[1].now > saves[2].now
    /\ saves[1].audio_data # saves[2].audio_data
    /\ disk[saves[1].ret] = saves[1].audio_data
    /\ disk[saves[2].ret] = saves[2].audio_data

C13_LastCompletedHeld ==
    NoSpeechThread =>
        current_audio = IF returned = <<>> THEN NoneVal
                        ELSE AudioOf(returned[Len(returned)])

\* a step of a generation thread's `if audio_data:` sets the audio held to the
\* thread's audio or leaves it; no other step of the running process changes it
StoreReplacesOrKeeps ==
    /\ \A w \in DOMAIN workers :
          GenStore(w) =>
             current_audio' = IF Truthy(workers[w].audio) THEN workers[w].audio
                              ELSE current_audio
    /\ ((\A v \in DOMAIN workers : ~GenStore(v)) /\ Running') => UNCHANGED current_audio

\* C13, amended: a generation thread whose generate_speech returned audio
\* replaces the audio held when it assigns it, one whose generate_speech failed
\* on both transports leaves it as it was, and nothing else changes it; so
\* once every thread has ended, and the threads assigned in the order their
\* generations completed, the audio held is that of the successful generation
\* that completed last.
C13_ReplacedOnSuccessOnly ==
    /\ [][StoreReplacesOrKeeps]_vars
    /\ []((NoSpeechThread /\ stored = returned) =>
             current_audio = IF returned = <<>> THEN NoneVal
                             ELSE AudioOf(returned[Len(returned)]))
C13_Witness ==
    /\ NoSpeechThread /\ uiq = <<>>
    /\ Len(workers) = 3
    /\ returned = <<2>> /\ stored = <<2>>
    /\ status_var = "generate_failed"
    /\ current_audio = AudioOf(2)

\* C14: the process ends abnormally only for a missing credential (or a
\* missing synthesis library, with which it does not get as far as a session):
\* otherwise it is running, or run has returned after menu choice '5'.
C14_FatalOnlyWithoutKey == proc \in {"running", "ended", "exit_no_key"}

\* C15: with PDF support available, the import worker run on a PDF that opens
\* and has a page of text hands over the callbacks that replace the text area
\* with the extracted text and set the success status, and no failure status.
C15_PdfImportSucceeds ==
    [][\A w \in DOMAIN workers :
          (Running /\ PDF_AVAILABLE
             /\ ImportFile(w, TRUE, <<[fails |-> FALSE, text |-> <<"a">>]>>)) =>
            LET cbs == uiq'[Len(uiq')]
            IN  /\ \E i \in DOMAIN cbs : cbs[i] = Cb("text_insert", <<"a">>, "import")
                /\ \E i \in DOMAIN cbs : cbs[i] = Cb("status", "pdf_imported", "import")
                /\ \A i \in DOMAIN cbs : cbs[i] # Cb("status", "pdf_import_failed", "import")]_vars

\* `exactly the first 5000 characters of t followed by the truncation marker`
TruncatedFrom(sent, t) ==
    /\ Len(sent) = 5000 + Len(TruncationMarker)
    /\ SubSeq(sent, 1, 5000) = SubSeq(t, 1, 5000)
    /\ SubSeq(sent, 5001, Len(sent)) = TruncationMarker
\* a step that starts a read_thread
StartsRead ==
    /\ Len(workers') = Len(workers) + 1
    /\ workers'[Len(workers')].kind = "read"

\* C16: read_pdf_aloud gives a text of at most 5000 characters to the worker
\* unchanged and without asking; for a longer text it asks, and `read all`
\* gives the full text, `truncate` gives exactly the first 5000 characters
\* followed by the truncation marker, and `cancel` starts no worker and changes
\* nothing; the worker keeps the text it was given until its request is made.
C16_ReadAloudText ==
    /\ [][/\ StartsRead =>
               LET t == Strip(text_area)
                   sent == workers'[Len(workers')].text
               IN  /\ ClickReadPdf
                   /\ workers'[Len(workers')] = Worker("read", sent)
                   /\ Len(t) <= 5000 =>
                         /\ sent = t
                         /\ ~read_pdf_aloud(text_area, client, "yes").asked
                   /\ Len(t) > 5000 =>
                         /\ read_pdf_aloud(text_area, client, "yes").asked
                         /\ ReadPdfAloud("yes") \/ ReadPdfAloud("no")
                         /\ ReadPdfAloud("yes") => sent = t
                         /\ ReadPdfAloud("no") => TruncatedFrom(sent, t)
                         /\ ~ReadPdfAloud("cancel")
           /\ \A w \in DOMAIN workers :
                 (workers[w].kind = "read" /\ workers'[w].kind = "read") =>
                     workers'[w].text = workers[w].text]_vars
    /\ [](LET t == Strip(text_area)
          IN  (client = "ok" /\ Len(t) > 5000) =>
                 /\ ~read_pdf_aloud(text_area, client, "cancel").start
                 /\ read_pdf_aloud(text_area, client, "cancel").asked
                 /\ read_pdf_aloud(text_area, client, "yes").text = t
                 /\ TruncatedFrom(read_pdf_aloud(text_area, client, "no").text, t))
C16_Witness ==
    \E w \in DOMAIN workers :
        /\ workers[w].kind = "read" /\ workers[w].pc = "wait"
        /\ TruncatedFrom(workers[w].text, Document(5001))
        /\ workers[w].text[5000] = "a"
        /\ text_area = Document(5000) \o <<" ">>

\* the listed players among the commands of a sequence
Listed(cmds) == {k \in DOMAIN cmds : cmds[k] \in Range(players)}
\* the position of a listed player
PlayerIndex(name) == CHOOSE i \in DOMAIN players : players[i] = name

\* C17: on Linux _play_with_system probes mpg123, mpv, vlc, mplayer, aplay in
\* that order; a player is probed and launched only if every player before it
\* was absent or failed to launch; at most one listed player runs to
\* completion; xdg-open is attempted only if no listed player was run, and
\* then every listed player has been probed.
C17_ProbeOrder ==
    last.op = "_play_with_system" =>
        /\ last.probed = SubSeq(players, 1, Len(last.probed))
        /\ players = <<"mpg123", "mpv", "vlc", "mplayer", "aplay">>
        /\ \A k \in DOMAIN last.probed : \A j \in 1..(k - 1) :
              last.players[j] \in {"absent", "launch_raises"}
        /\ \A k \in Listed(last.tried) :
              /\ last.players[PlayerIndex(last.tried[k])] # "absent"
              /\ \A j \in 1..(PlayerIndex(last.tried[k]) - 1) :
                    last.players[j] \in {"absent", "launch_raises"}
        /\ Cardinality(Listed(last.ran)) <= 1
        /\ \A k \in Listed(last.ran) :
              /\ last.players[PlayerIndex(last.ran[k])] = "runs"
              /\ k = Len(last.ran)
        /\ ("xdg-open" \in Range(last.tried)) <=> (Listed(last.ran) = {})
        /\ ("xdg-open" \in Range(last.tried)) => last.probed = players
C17_Witness ==
    /\ last.op = "_play_with_system"
    /\ last.players = <<"absent", "launch_raises", "runs", "runs", "launch_raises">>
    /\ last.probed = <<"mpg123", "mpv", "vlc">>
    /\ last.tried = <<"mpv", "vlc">>
    /\ last.ran = <<"vlc">>

\* C18: generate_speech makes the fallback POST exactly when the primary path
\* raised, and never after a primary success; the audio returned is the joined
\* chunks of the primary call, or the body of the fallback response with status
\* 200, and never contains chunks of a primary call that raised.
C18_OneTransport ==
    last.op = "generate_speech" =>
        /\ last.post \in {0, 1}
        /\ (last.post = 1) <=> last.primaryRaised
        /\ ~last.primaryRaised =>
              /\ last.primary = 1
              /\ last.fallback.kind = "unused"
              /\ last.ret = Join(last.yielded)
        /\ last.primaryRaised =>
              \/ last.ret = NoneVal
              \/ /\ last.fallback.kind = "response" /\ last.fallback.status = 200
                 /\ last.ret = last.fallback.body
C18_Witness ==
    /\ last.op = "generate_speech"
    /\ last.primaryRaised /\ last.primary = 1
    /\ last.yielded # <<>>
    /\ last.fallback.kind = "response" /\ last.fallback.status = 200
    /\ last.fallback.body # <<>>
    /\ last.ret = last.fallback.body

\* the generate_thread and read_thread workers that have not ended
SpeechWorkers == {w \in DOMAIN workers : IsGen(w)}

C20_SelectedVoiceSent ==
    [][\A w \in DOMAIN workers :
          (GenCall(w) /\ workers[w].chosen # "") =>
              workers'[w].voice = workers[w].chosen]_vars

\* the callbacks of generate_thread and read_thread not yet run
SpeechCbsPending ==
    \E i \in DOMAIN uiq : uiq[i] # <<>> /\ uiq[i][1].by \in {"generate", "read"}
\* every generation has ended and the window shows it
ShowsEnd ==
    /\ NoSpeechThread
    /\ ~SpeechCbsPending
    /\ progress = "stopped"
    /\ btn.generate = "normal"

C22_EnabledOnlyWithAudio ==
    /\ (btn.play = "normal" \/ btn.save = "normal") =>
          /\ Truthy(current_audio)
          /\ stored # <<>>
    /\ ~Truthy(current_audio) =>
          /\ btn.play = "disabled" /\ btn.save = "disabled"
          /\ ~gui_play_audio(current_audio).start
          /\ \A filename \in {""} \cup ChosenNames :
                gui_save_audio(current_audio, filename,
                               [open |-> "ok", write |-> "ok", kept |-> 0],
                               disk, status_var).files = disk
          /\ \A w \in DOMAIN workers : workers[w].kind # "play"
          /\ \A n \in DOMAIN disk : disk[n] = NoneVal
          /\ tmpfiles = {} /\ ntmp = 0
C22_Witness ==
    /\ btn.play = "normal" /\ btn.save = "normal"
    /\ Truthy(current_audio)
    /\ disk["out.mp3"] = current_audio
    /\ status_var = "saved"
    /\ \E w \in DOMAIN workers : workers[w].kind = "play"

====
